---- MODULE Spec2Model ----
(***************************************************************************)
(* Model of static/script.js: the browser voice client.  One action per    *)
(* event handler of the page (WebSocket events, button events, recorder    *)
(* events, audio-source completion, timers) and one per continuation of an *)
(* async function.  The event loop is modelled as in the browser: a FIFO   *)
(* of microtasks (continuations of awaits on already-settled promises)     *)
(* that is emptied before the next event handler runs, and continuations   *)
(* parked on promises that the environment settles later                   *)
(* (AudioContext.resume, getUserMedia, Blob.arrayBuffer).                  *)
(***************************************************************************)
EXTENDS Integers, Sequences, FiniteSets, TLC

\* ---- bounds of the model ----
MaxEvents == 4     \* inputs: frames received, user gestures, suspensions
MaxClock == 2      \* last value of the output device clock
MaxFrags == 2      \* non-empty fragments the recorders deliver

\* byte lengths of the binary frames the server may deliver:
\* 0 = empty frame, 1 = odd length, 2 and 4 = one and two samples
ChunkLens == {0, 1, 2, 4}

\* text frames the server may deliver, by what handleServerMessage sees
MsgKinds == {"agent_ready", "status_other", "error", "audio_stream_end",
             "zapier_success", "zapier_failure", "lifecycle", "unknown",
             "malformed"}

\* the error type counted among the types that are only logged
IgnoredKindsAndError == {"audio_stream_end", "lifecycle", "unknown", "malformed",
                         "error"}
\* a frame JSON.parse rejects, and the types whose case only logs
IgnoredKinds == {"audio_stream_end", "lifecycle", "unknown", "malformed"}

VARIABLES
    wsState,            \* ws.readyState: "connecting", "open", "closed"
    isReady,            \* let isReady
    recordDisabled,     \* recordButton.disabled
    refreshDisabled,    \* refreshButton.disabled
    status,             \* statusDiv.textContent (by kind)
    audioSupported,     \* whether new AudioContext() succeeds in this browser
    ctxState,           \* audioContext: "none", "suspended", "running"
    clock,              \* audioContext.currentTime, in samples
    nextStartTime,      \* let nextStartTime
    audioQueue,         \* let audioQueue
    isPlaying,          \* let isPlaying
    currentAudioSource, \* id of the source node referenced, 0 = null
    sources,            \* scheduled source nodes whose ended event is still to come
    microtasks,         \* FIFO of continuations ready to run
    waiting,            \* continuations parked on audioContext.resume()
    timers,             \* pending setTimeout callbacks of zapier_refreshed
    sent,               \* frames handed to ws.send, in order
    mediaRecorder,      \* id of the recorder referenced, 0 = undefined
    recording,          \* recorders whose state is 'recording'
    micStream,          \* id of the stream referenced, 0 = null/undefined
    streams,            \* microphone streams with a live track
    localAudioChunks,   \* let localAudioChunks: fragments <<recorder, n>>
    gumPending,         \* startRecording calls parked on getUserMedia
    stopTasks,          \* recorders stopped whose stop event is still to come
    blobPending,        \* onstop handlers parked on audioBlob.arrayBuffer()
    nextFrag,           \* number of non-empty fragments delivered + 1
    sourceNode,         \* stream the visualizer source is attached to, 0 = null
    analyser,           \* the analyser node exists
    visualizerDrawing,  \* let visualizerDrawing
    rafPending,         \* a requestAnimationFrame(draw) callback is pending
    nextRec,            \* number of startRecording calls past the guard + 1
    nextId,             \* number of binary frames delivered so far + 1
    events,             \* inputs so far
    lastOp,             \* the handler branch that ran last
    scheduled,          \* ids of the chunks scheduled, in scheduling order
    lastSched,          \* the last scheduling: clock, nextStartTime before, start
    chainLen,           \* chunks scheduled on time in a row, 0 after a reset
    chainEnd,           \* first start of the chain + durations scheduled in it
    drained,            \* a completion callback's drain reset ran, no chunk scheduled since
    stopMark,           \* last chunk scheduled before the last stop during rendering
    stopArrived,        \* last chunk arrived before that stop
    sinceStop,          \* that stop happened and no chunk was scheduled since
    everReady,          \* readiness has been ready at some point
    refreshFailed,      \* refresh click answered by a failure, not ready since
    refreshPending,     \* refresh command sent, its confirmation not yet received
    delivered           \* the non-empty fragments delivered so far, in order

connVars == <<wsState>>
uiVars == <<isReady, recordDisabled, refreshDisabled, status>>
ctxVars == <<audioSupported, ctxState, clock>>
playVars == <<nextStartTime, audioQueue, isPlaying, currentAudioSource, sources>>
loopVars == <<microtasks, waiting, timers>>
recVars == <<mediaRecorder, recording, micStream, streams, localAudioChunks,
             gumPending, stopTasks, blobPending, nextFrag, delivered, nextRec>>
vizVars == <<sourceNode, analyser, visualizerDrawing, rafPending>>
budgetVars == <<nextId, events>>
schedHist == <<scheduled, lastSched>>
chainHist == <<chainLen, chainEnd>>
stopHist == <<stopMark, stopArrived, sinceStop>>
histVars == <<scheduled, lastSched, chainLen, chainEnd, drained, stopMark,
              stopArrived, sinceStop, everReady, refreshFailed, refreshPending>>

vars == <<wsState, isReady, recordDisabled, refreshDisabled, status,
          audioSupported, ctxState, clock, nextStartTime, audioQueue,
          isPlaying, currentAudioSource, sources, microtasks, waiting,
          timers, sent, mediaRecorder, recording, micStream, streams,
          localAudioChunks, gumPending, stopTasks, blobPending, nextFrag,
          sourceNode, analyser, visualizerDrawing, rafPending, nextRec, nextId,
          events, lastOp,
          scheduled, lastSched, chainLen, chainEnd, drained, stopMark,
          stopArrived, sinceStop, everReady, refreshFailed, refreshPending>>

Max(a, b) == IF a >= b THEN a ELSE b

\* ---- ensureAudioContext ----
\* the constructor taken never to throw
EnsureFailsNever == FALSE
\* new AudioContext() throws: the catch branch returns false
EnsureFails == ctxState = "none" /\ ~audioSupported

\* a new context made by every call
CtxAfterEnsureRemade(cr) == IF audioSupported THEN cr ELSE "none"
\* state of the context when ensureAudioContext reaches its resume check;
\* a context created now starts in state cr
CtxAfterEnsure(cr) ==
    IF ctxState = "none" THEN (IF audioSupported THEN cr ELSE "none")
    ELSE ctxState

\* the continuation dropped: the caller never resumes
MicrotasksAfterEnsureLost(mt, t, cr) == mt
\* the continuation queued without waiting for resume()
MicrotasksAfterEnsureUnawaited(mt, t, cr) ==
    Append(mt, [t EXCEPT !.ready = ~EnsureFails])
\* the caller's continuation t: parked on resume() when the context is
\* suspended, otherwise queued as a microtask with the value returned
MicrotasksAfterEnsure(mt, t, cr) ==
    IF EnsureFails THEN Append(mt, [t EXCEPT !.ready = FALSE])
    ELSE IF CtxAfterEnsure(cr) = "suspended" THEN mt
    ELSE Append(mt, [t EXCEPT !.ready = TRUE])

WaitingAfterEnsure(wt, t, cr) ==
    IF ~EnsureFails /\ CtxAfterEnsure(cr) = "suspended"
    THEN Append(wt, [t EXCEPT !.ready = TRUE])
    ELSE wt

Cont(kind, from) == [k |-> kind, ready |-> TRUE, from |-> from, rid |-> 0]

\* ---- sample format ----
BytesPerSample == 2
\* audioBuffer.duration in samples: pcm16Data.length
Duration(len) == len \div BytesPerSample
\* the length check left out
OddLengthUnchecked(len) == FALSE
OddLength(len) == len % BytesPerSample /= 0
\* createBuffer(1, 0, rate) throws NotSupportedError
CreateBufferThrows(len) == Duration(len) = 0

\* ---- gapless scheduling ----
\* the stale scheduled time used even when the device is past it
StartTimeStale(currentTime, nst) == nst
StartTime(currentTime, nst) == Max(currentTime, nst)
\* the next start set to the duration alone
NextStartFromZero(currentTime, nst, dur) == dur
\* the next start computed from the device clock instead of the start time
NextStartFromNow(currentTime, nst, dur) == currentTime + dur
\* nextStartTime = startTime + audioBuffer.duration
NextStart(currentTime, nst, dur) == StartTime(currentTime, nst) + dur

Init ==
    /\ wsState = "connecting"
    /\ isReady = FALSE
    /\ recordDisabled = TRUE
    /\ refreshDisabled = TRUE
    /\ status = "initial"
    /\ audioSupported \in BOOLEAN
    /\ ctxState = "none"
    /\ clock = 0
    /\ nextStartTime = 0
    /\ audioQueue = <<>>
    /\ isPlaying = FALSE
    /\ currentAudioSource = 0
    /\ sources = {}
    /\ microtasks = <<>>
    /\ waiting = <<>>
    /\ timers = 0
    /\ sent = <<>>
    /\ mediaRecorder = 0
    /\ recording = {}
    /\ micStream = 0
    /\ streams = {}
    /\ localAudioChunks = <<>>
    /\ gumPending = {}
    /\ stopTasks = {}
    /\ blobPending = {}
    /\ nextFrag = 1
    /\ sourceNode = 0
    /\ analyser = FALSE
    /\ visualizerDrawing = FALSE
    /\ rafPending = FALSE
    /\ nextRec = 1
    /\ nextId = 1
    /\ events = 0
    /\ lastOp = "init"
    /\ scheduled = <<>>
    /\ lastSched = [at |-> 0, prev |-> 0, start |-> 0]
    /\ chainLen = 0
    /\ chainEnd = 0
    /\ drained = FALSE
    /\ stopMark = 0
    /\ stopArrived = 0
    /\ sinceStop = FALSE
    /\ everReady = FALSE
    /\ refreshFailed = FALSE
    /\ refreshPending = FALSE
    /\ delivered = <<>>

\* an event handler runs only when no microtask is left
Idle == microtasks = <<>>

\* effects of ensureAudioContext's catch branch on the page
StatusAfterEnsure(st) == IF EnsureFails THEN "audio_unsupported" ELSE st
DisabledAfterEnsure(d) == IF EnsureFails THEN TRUE ELSE d

Frame(cmd, data) == [cmd |-> cmd, data |-> data]

\* the send made whatever the state of the connection
CanSendAlways == TRUE
\* ws && ws.readyState === WebSocket.OPEN, the test before every ws.send
CanSend == wsState = "open"

\* the arriving chunk put in place of the chunks queued
PushReplacing(q, c) == <<c>>
\* audioQueue.push(event.data)
Push(q, c) == Append(q, c)

\* the newest chunk taken instead of the oldest (pop for shift)
ShiftNewest(q) == [chunk |-> q[Len(q)], rest |-> SubSeq(q, 1, Len(q) - 1)]
\* audioQueue.shift()
Shift(q) == [chunk |-> Head(q), rest |-> Tail(q)]

\* ---- WebSocket lifecycle ----
WsOpen ==
    /\ Idle
    /\ wsState = "connecting"
    /\ wsState' = "open"
    /\ status' = "connected"
    /\ lastOp' = "ws_open"
    /\ UNCHANGED <<isReady, recordDisabled, refreshDisabled, ctxVars, playVars,
                   loopVars, sent, recVars, vizVars, budgetVars, histVars>>

\* ws.onclose
WsClose ==
    /\ Idle
    /\ wsState \in {"connecting", "open"}
    /\ wsState' = "closed"
    /\ status' = "disconnected"
    /\ recordDisabled' = TRUE
    /\ refreshDisabled' = TRUE
    /\ isReady' = FALSE
    /\ lastOp' = "ws_close"
    /\ UNCHANGED <<ctxVars, playVars, loopVars, sent, recVars, vizVars,
                   budgetVars, histVars>>

\* ws.onerror; the connection is failed, its close event follows
WsError ==
    /\ Idle
    /\ wsState \in {"connecting", "open"}
    /\ wsState' = "closed"
    /\ status' = "ws_error"
    /\ recordDisabled' = TRUE
    /\ refreshDisabled' = TRUE
    /\ isReady' = FALSE
    /\ lastOp' = "ws_error"
    /\ UNCHANGED <<ctxVars, playVars, loopVars, sent, recVars, vizVars,
                   budgetVars, histVars>>

\* ---- ws.onmessage, binary frame ----
RecvBinary(len, cr) ==
    /\ Idle
    /\ wsState = "open"
    /\ events < MaxEvents
    /\ events' = events + 1
    /\ nextId' = nextId + 1
    /\ audioQueue' = Push(audioQueue, [id |-> nextId, len |-> len])
    /\ IF ~isPlaying
       THEN /\ ctxState' = CtxAfterEnsure(cr)
            /\ microtasks' = MicrotasksAfterEnsure(microtasks, Cont("then", "msg"), cr)
            /\ waiting' = WaitingAfterEnsure(waiting, Cont("then", "msg"), cr)
            /\ status' = StatusAfterEnsure(status)
            /\ recordDisabled' = DisabledAfterEnsure(recordDisabled)
            /\ refreshDisabled' = DisabledAfterEnsure(refreshDisabled)
       ELSE UNCHANGED <<ctxState, microtasks, waiting, status, recordDisabled,
                        refreshDisabled>>
    /\ lastOp' = "recv_binary"
    /\ UNCHANGED <<wsState, isReady, audioSupported, clock, nextStartTime,
                   isPlaying, currentAudioSource, sources, timers, sent,
                   recVars, vizVars, histVars>>

\* ---- ws.onmessage, text frame: JSON.parse and handleServerMessage ----
RefreshSent == \E i \in 1..Len(sent) : sent[i].cmd = "refresh_zapier"

\* readiness set on every status message, whatever its text
ReadyAfterStatusAlways(kind, ready) == TRUE
\* 'if (message.message === 'Agent ready') isReady = true' of the status case
ReadyAfterStatus(kind, ready) == IF kind = "agent_ready" THEN TRUE ELSE ready

RecvText(kind) ==
    /\ Idle
    /\ wsState = "open"
    /\ events < MaxEvents
    /\ events' = events + 1
    /\ lastOp' = IF kind \in IgnoredKinds THEN "text_ignored" ELSE kind
    /\ CASE kind = "agent_ready" ->
              /\ status' = "agent_ready"
              /\ isReady' = ReadyAfterStatus(kind, isReady)
              /\ recordDisabled' = FALSE
              /\ refreshDisabled' = FALSE
              /\ everReady' = TRUE
              /\ refreshFailed' = FALSE
              /\ UNCHANGED <<playVars, timers, schedHist, chainHist, drained, stopHist,
                             refreshPending>>
         [] kind = "status_other" ->
              /\ status' = "server_status"
              /\ isReady' = ReadyAfterStatus(kind, isReady)
              /\ UNCHANGED <<recordDisabled, refreshDisabled, playVars, timers,
                             histVars>>
         [] kind = "error" ->
              /\ status' = "server_error"
              /\ isPlaying' = FALSE
              /\ audioQueue' = <<>>
              /\ nextStartTime' = 0
              /\ recordDisabled' = ~isReady
              /\ refreshDisabled' = ~isReady
              /\ chainLen' = 0
              /\ chainEnd' = 0
              /\ UNCHANGED <<isReady, currentAudioSource, sources, timers,
                             schedHist, drained, stopHist, everReady,
                             refreshFailed, refreshPending>>
         [] kind \in {"zapier_success", "zapier_failure"} ->
              /\ status' = "zapier_refresh"
              /\ isReady' = (kind = "zapier_success")
              /\ refreshDisabled' = FALSE
              /\ recordDisabled' = ~(kind = "zapier_success")
              /\ timers' = IF kind = "zapier_success" THEN timers + 1 ELSE timers
              /\ everReady' = (everReady \/ kind = "zapier_success")
              /\ refreshFailed' = (kind = "zapier_failure" /\ RefreshSent)
              /\ refreshPending' = FALSE
              /\ UNCHANGED <<playVars, schedHist, chainHist, drained, stopHist>>
         [] kind \in IgnoredKinds ->
              UNCHANGED <<uiVars, playVars, timers, histVars>>
    /\ UNCHANGED <<wsState, ctxVars, microtasks, waiting, sent, recVars,
                   vizVars, nextId>>

\* the status left as it is by the timeout
AfterDelayKept(st) == st
\* the callback: a status that starts with 'Zapier Refresh:' becomes the idle one
AfterDelay(st) == IF st = "zapier_refresh" THEN "ready_idle" ELSE st

\* the setTimeout callback of zapier_refreshed
Timer ==
    /\ Idle
    /\ timers > 0
    /\ timers' = timers - 1
    /\ status' = AfterDelay(status)
    /\ lastOp' = "timer"
    /\ UNCHANGED <<wsState, isReady, recordDisabled, refreshDisabled, ctxVars,
                   playVars, microtasks, waiting, sent, recVars, vizVars,
                   budgetVars, histVars>>

\* ---- the continuation of ensureAudioContext().then(...) in ws.onmessage ----
RunThen(t, rest) ==
    /\ IF t.ready /\ ~isPlaying /\ Len(audioQueue) > 0
       THEN \* playAudioQueue() runs up to its await
            /\ microtasks' = MicrotasksAfterEnsure(rest, Cont("paq", "msg"), ctxState)
            /\ waiting' = WaitingAfterEnsure(waiting, Cont("paq", "msg"), ctxState)
            /\ lastOp' = "then_play"
       ELSE /\ microtasks' = rest
            /\ waiting' = waiting
            /\ lastOp' = "then_skip"
    /\ UNCHANGED <<wsState, uiVars, ctxVars, playVars, timers, sent, recVars,
                   vizVars, budgetVars, histVars>>

\* the reset of the empty-queue branch left out
DrainedClockKept(nst) == nst
\* nextStartTime = 0 in the empty-queue branch
DrainedClock(nst) == 0

\* the buttons left as they are by the empty-queue branch
DrainedDisabledKept(ready, d) == d
\* if (isReady) the button is enabled, in the empty-queue branch
DrainedDisabled(ready, d) == IF ready THEN FALSE ELSE d

\* the playing flag, set before the try block, left as it is by the catch block
FailedPlayingKept(playing) == playing
\* isPlaying = false in the catch block
FailedPlaying(playing) == FALSE

\* ---- playAudioQueue after its await ensureAudioContext() ----
RunPaq(t, rest) ==
    IF ~t.ready
    THEN /\ microtasks' = rest
         /\ lastOp' = "paq_nocontext"
         /\ UNCHANGED <<uiVars, playVars, waiting, histVars>>
    ELSE IF Len(audioQueue) = 0 \/ isPlaying
    THEN IF Len(audioQueue) = 0 /\ ~isPlaying
         THEN \* queue empty: reset the page and the clock
              /\ status' = "ready_idle"
              /\ recordDisabled' = DrainedDisabled(isReady, recordDisabled)
              /\ refreshDisabled' = DrainedDisabled(isReady, refreshDisabled)
              /\ nextStartTime' = DrainedClock(nextStartTime)
              /\ microtasks' = rest
              /\ lastOp' = "paq_drain"
              /\ chainLen' = 0
              /\ chainEnd' = 0
              /\ drained' = (drained \/ t.from = "ended")
              /\ UNCHANGED <<isReady, audioQueue, isPlaying, currentAudioSource,
                             sources, waiting, schedHist, stopHist, everReady,
                             refreshFailed, refreshPending>>
         ELSE /\ microtasks' = rest
              /\ lastOp' = "paq_busy"
              /\ UNCHANGED <<uiVars, playVars, waiting, histVars>>
    ELSE LET c == Shift(audioQueue).chunk
             dur == Duration(c.len)
             startTime == StartTime(clock, nextStartTime)
         IN  /\ audioQueue' = IF ~OddLength(c.len) /\ CreateBufferThrows(c.len)
                              THEN <<>> ELSE Shift(audioQueue).rest
             /\ IF OddLength(c.len)
                THEN \* corrupt frame: drop it and try the next chunk
                     /\ isPlaying' = FALSE
                     /\ recordDisabled' = TRUE
                     /\ refreshDisabled' = TRUE
                     /\ status' = "speaking"
                     /\ microtasks' = MicrotasksAfterEnsure(rest, Cont("paq", "retry"), ctxState)
                     /\ waiting' = WaitingAfterEnsure(waiting, Cont("paq", "retry"), ctxState)
                     /\ lastOp' = "paq_discard"
                     /\ UNCHANGED <<isReady, nextStartTime, currentAudioSource,
                                    sources, schedHist, chainHist, drained,
                                    stopHist, everReady, refreshFailed, refreshPending>>
                ELSE IF CreateBufferThrows(c.len)
                THEN \* the catch block
                     /\ isPlaying' = FailedPlaying(TRUE)
                     /\ nextStartTime' = 0
                     /\ recordDisabled' = ~isReady
                     /\ refreshDisabled' = ~isReady
                     /\ status' = "playback_error"
                     /\ microtasks' = rest
                     /\ lastOp' = "paq_error"
                     /\ chainLen' = 0
                     /\ chainEnd' = 0
                     /\ UNCHANGED <<isReady, currentAudioSource, sources, waiting,
                                    schedHist, drained, stopHist, everReady,
                                    refreshFailed, refreshPending>>
                ELSE \* schedule the chunk
                     /\ isPlaying' = TRUE
                     /\ recordDisabled' = TRUE
                     /\ refreshDisabled' = TRUE
                     /\ status' = "speaking"
                     /\ currentAudioSource' = c.id
                     /\ sources' = sources \cup
                           {[id |-> c.id, start |-> startTime, end |-> startTime + dur]}
                     /\ nextStartTime' = NextStart(clock, nextStartTime, dur)
                     /\ microtasks' = rest
                     /\ lastOp' = "paq_schedule"
                     /\ scheduled' = Append(scheduled, c.id)
                     /\ lastSched' = [at |-> clock, prev |-> nextStartTime,
                                      start |-> startTime]
                     /\ chainLen' = IF chainLen > 0 /\ clock <= nextStartTime
                                    THEN chainLen + 1 ELSE 1
                     /\ chainEnd' = IF chainLen > 0 /\ clock <= nextStartTime
                                    THEN chainEnd + dur
                                    ELSE startTime + dur
                     /\ drained' = FALSE
                     /\ sinceStop' = FALSE
                     /\ UNCHANGED <<isReady, waiting, stopMark, stopArrived,
                                    everReady, refreshFailed, refreshPending>>

\* ---- currentAudioSource.onended ----
SourceEnded(s) ==
    /\ Idle
    /\ s \in sources
    /\ clock >= s.end
    /\ sources' = sources \ {s}
    /\ currentAudioSource' = 0
    /\ isPlaying' = FALSE
    /\ microtasks' = MicrotasksAfterEnsure(microtasks, Cont("paq", "ended"), ctxState)
    /\ waiting' = WaitingAfterEnsure(waiting, Cont("paq", "ended"), ctxState)
    /\ lastOp' = "onended"
    /\ UNCHANGED <<wsState, uiVars, ctxVars, nextStartTime, audioQueue, timers,
                   sent, recVars, vizVars, budgetVars, histVars>>

\* a source with a chunk still to render or being rendered
Rendering == \E s \in sources : clock < s.end

\* ---- stopAgentAndPlayback: click on the stop button ----
\* the buttons left enabled whatever the readiness
DisabledAfterStopNever(ready) == FALSE
\* if (isReady) both buttons enabled, else both disabled
DisabledAfterStop(ready) == ~ready

StopAgentAndPlayback ==
    /\ Idle
    /\ events < MaxEvents
    /\ events' = events + 1
    /\ audioQueue' = <<>>
    \* onended = null and stop() on the source referenced
    /\ sources' = {s \in sources : s.id /= currentAudioSource}
    /\ currentAudioSource' = 0
    /\ isPlaying' = FALSE
    /\ nextStartTime' = 0
    /\ sent' = IF CanSend THEN Append(sent, Frame("stop_agent", <<>>))
               ELSE sent
    /\ status' = "stop_requested"
    /\ recordDisabled' = DisabledAfterStop(isReady)
    /\ refreshDisabled' = DisabledAfterStop(isReady)
    /\ lastOp' = "stop_agent"
    /\ chainLen' = 0
    /\ chainEnd' = 0
    /\ stopMark' = IF Rendering THEN scheduled[Len(scheduled)] ELSE stopMark
    /\ stopArrived' = IF Rendering THEN nextId - 1 ELSE stopArrived
    /\ sinceStop' = (Rendering \/ sinceStop)
    /\ UNCHANGED <<wsState, isReady, ctxVars, loopVars, recVars, vizVars, nextId,
                   schedHist, drained, everReady, refreshFailed, refreshPending>>

\* ---- the output device ----
Tick ==
    /\ Idle
    /\ ctxState = "running"
    /\ sources /= {}       \* time is observed only against scheduled chunks
    /\ clock < MaxClock
    /\ clock' = clock + 1
    /\ lastOp' = "tick"
    /\ UNCHANGED <<wsState, uiVars, audioSupported, ctxState, playVars, loopVars,
                   sent, recVars, vizVars, budgetVars, histVars>>

\* the user agent suspends the context
Suspend ==
    /\ Idle
    /\ ctxState = "running"
    /\ events < MaxEvents
    /\ events' = events + 1
    /\ ctxState' = "suspended"
    /\ lastOp' = "suspend"
    /\ UNCHANGED <<wsState, uiVars, audioSupported, clock, playVars, loopVars,
                   sent, recVars, vizVars, nextId, histVars>>

\* the promises of audioContext.resume() settle, in call order
ResumeResolved ==
    /\ Idle
    /\ ctxState = "suspended"
    /\ Len(waiting) > 0
    /\ ctxState' = "running"
    /\ microtasks' = microtasks \o waiting
    /\ waiting' = <<>>
    /\ lastOp' = "resumed"
    /\ UNCHANGED <<wsState, uiVars, audioSupported, clock, playVars, timers,
                   sent, recVars, vizVars, budgetVars, histVars>>

\* the guard without its readiness test
StartRefusedUnlessOpen == wsState /= "open"
\* the guard of startRecording
StartRefused == wsState /= "open" \/ ~isReady

\* ---- startRecording: mousedown on the record button, up to its first await ----
StartRecording(cr) ==
    /\ Idle
    /\ events < MaxEvents
    /\ ~recordDisabled      \* a disabled button receives no mousedown
    /\ events' = events + 1
    /\ IF StartRefused
       THEN /\ status' = "not_connected_or_not_ready"
            /\ lastOp' = "rec_refused"
            /\ UNCHANGED <<recordDisabled, refreshDisabled, ctxState, microtasks,
                           waiting, nextRec>>
       ELSE /\ ctxState' = CtxAfterEnsure(cr)
            /\ microtasks' = MicrotasksAfterEnsure(microtasks,
                                [Cont("rec", "user") EXCEPT !.rid = nextRec], cr)
            /\ waiting' = WaitingAfterEnsure(waiting,
                                [Cont("rec", "user") EXCEPT !.rid = nextRec], cr)
            /\ status' = StatusAfterEnsure(status)
            /\ recordDisabled' = DisabledAfterEnsure(recordDisabled)
            /\ refreshDisabled' = DisabledAfterEnsure(refreshDisabled)
            /\ nextRec' = nextRec + 1
            /\ lastOp' = "rec_guard_passed"
    /\ UNCHANGED <<wsState, isReady, audioSupported, clock, playVars, timers,
                   sent, mediaRecorder, recording, micStream, streams,
                   localAudioChunks, gumPending, stopTasks, blobPending, nextFrag, delivered,
                   vizVars, nextId, histVars>>

\* startRecording after await ensureAudioContext(), up to await getUserMedia
RunRec(t, rest) ==
    /\ microtasks' = rest
    /\ IF ~t.ready
       THEN /\ lastOp' = "rec_nocontext"
            /\ UNCHANGED <<playVars, localAudioChunks, gumPending, chainHist>>
       ELSE /\ localAudioChunks' = <<>>
            /\ audioQueue' = <<>>
            /\ isPlaying' = FALSE
            /\ nextStartTime' = 0
            /\ gumPending' = gumPending \cup {t.rid}
            /\ chainLen' = 0
            /\ chainEnd' = 0
            /\ lastOp' = "rec_reset"
            /\ UNCHANGED <<currentAudioSource, sources>>
    /\ UNCHANGED <<wsState, uiVars, ctxVars, waiting, timers, sent, mediaRecorder,
                   recording, micStream, streams, stopTasks, blobPending, nextFrag, delivered,
                   nextRec, vizVars, budgetVars, schedHist, drained, stopHist,
                   everReady, refreshFailed, refreshPending>>

\* getUserMedia resolves; recorderOk: new MediaRecorder / start do not throw
GumResolve(r, recorderOk) ==
    /\ Idle
    /\ r \in gumPending
    /\ gumPending' = gumPending \ {r}
    /\ micStream' = r
    /\ streams' = streams \cup {r}
    \* connectVisualizer(micStream) runs up to its await
    /\ microtasks' = MicrotasksAfterEnsure(microtasks,
                        [Cont("viz", "user") EXCEPT !.rid = r], ctxState)
    /\ waiting' = WaitingAfterEnsure(waiting,
                        [Cont("viz", "user") EXCEPT !.rid = r], ctxState)
    /\ IF recorderOk
       THEN /\ mediaRecorder' = r
            /\ recording' = recording \cup {r}
            /\ status' = "recording"
            /\ recordDisabled' = TRUE
            /\ lastOp' = "rec_started"
            /\ UNCHANGED sourceNode
       ELSE \* the catch block
            /\ status' = "mic_error"
            /\ sourceNode' = 0
            /\ lastOp' = "rec_setup_failed"
            /\ UNCHANGED <<mediaRecorder, recording, recordDisabled>>
    /\ UNCHANGED <<wsState, isReady, refreshDisabled, ctxVars, playVars, timers,
                   sent, localAudioChunks, stopTasks, blobPending, nextFrag, delivered, nextRec,
                   analyser, visualizerDrawing, rafPending, budgetVars, histVars>>

\* getUserMedia rejects: the catch block
GumReject(r) ==
    /\ Idle
    /\ r \in gumPending
    /\ gumPending' = gumPending \ {r}
    /\ status' = "mic_error"
    /\ sourceNode' = 0
    /\ lastOp' = "rec_mic_failed"
    /\ UNCHANGED <<wsState, isReady, recordDisabled, refreshDisabled, ctxVars,
                   playVars, loopVars, sent, mediaRecorder, recording, micStream,
                   streams, localAudioChunks, stopTasks, blobPending, nextFrag, delivered,
                   nextRec, analyser, visualizerDrawing, rafPending, budgetVars,
                   histVars>>

\* connectVisualizer after its await, with drawVisualizer
RunViz(t, rest) ==
    /\ microtasks' = rest
    /\ IF ~t.ready
       THEN /\ lastOp' = "viz_nocontext"
            /\ UNCHANGED vizVars
       ELSE /\ analyser' = TRUE
            /\ sourceNode' = t.rid
            /\ visualizerDrawing' = TRUE
            /\ rafPending' = TRUE
            /\ lastOp' = "viz_connected"
    /\ UNCHANGED <<wsState, uiVars, ctxVars, playVars, waiting, timers, sent,
                   recVars, budgetVars, histVars>>

\* the source taken to be attached at every tick
DetachedNever(node) == FALSE
\* if (!sourceNode) in draw()
Detached(node) == node = 0

\* the requestAnimationFrame callback draw()
DrawFrame ==
    /\ Idle
    /\ rafPending
    /\ IF Detached(sourceNode)
       THEN /\ visualizerDrawing' = FALSE
            /\ rafPending' = FALSE
            /\ lastOp' = "draw_final"
       ELSE UNCHANGED <<visualizerDrawing, rafPending, lastOp>>
    /\ UNCHANGED <<wsState, uiVars, ctxVars, playVars, loopVars, sent, recVars,
                   sourceNode, analyser, budgetVars, histVars>>

\* mediaRecorder.ondataavailable on a timeslice tick
DataAvailable(r, size) ==
    /\ Idle
    /\ r \in recording
    /\ size > 0 => nextFrag <= MaxFrags
    /\ nextFrag' = IF size > 0 THEN nextFrag + 1 ELSE nextFrag
    /\ localAudioChunks' = IF size > 0
                           THEN Append(localAudioChunks, <<r, nextFrag>>)
                           ELSE localAudioChunks
    /\ delivered' = IF size > 0 THEN Append(delivered, <<r, nextFrag>>)
                    ELSE delivered
    /\ lastOp' = IF size > 0 THEN "data" ELSE "data_empty"
    /\ UNCHANGED <<wsState, uiVars, ctxVars, playVars, loopVars, sent,
                   mediaRecorder, recording, micStream, streams, gumPending,
                   stopTasks, blobPending, nextRec, vizVars, budgetVars, histVars>>

\* ---- stopRecording: mouseup or mouseleave on the record button ----
StopRecording ==
    /\ Idle
    /\ events < MaxEvents
    /\ events' = events + 1
    /\ IF mediaRecorder /= 0 /\ mediaRecorder \in recording
       THEN /\ recording' = recording \ {mediaRecorder}
            /\ stopTasks' = stopTasks \cup {mediaRecorder}
       ELSE UNCHANGED <<recording, stopTasks>>
    /\ recordDisabled' = FALSE
    /\ streams' = streams \ {micStream}
    /\ micStream' = 0
    /\ lastOp' = "stop_recording"
    /\ UNCHANGED <<wsState, isReady, refreshDisabled, status, ctxVars, playVars,
                   loopVars, sent, mediaRecorder, localAudioChunks, gumPending,
                   blobPending, nextFrag, delivered, nextRec, vizVars, nextId, histVars>>

\* the empty-buffer test left out
NothingRecordedUnchecked(chunks) == FALSE
\* localAudioChunks.length === 0
NothingRecorded(chunks) == Len(chunks) = 0

\* the recorder's last dataavailable followed by mediaRecorder.onstop,
\* up to its await audioBlob.arrayBuffer()
OnStop(r, size) ==
    /\ Idle
    /\ r \in stopTasks
    /\ stopTasks' = stopTasks \ {r}
    /\ sourceNode' = 0
    /\ size > 0 => nextFrag <= MaxFrags
    /\ nextFrag' = IF size > 0 THEN nextFrag + 1 ELSE nextFrag
    /\ delivered' = IF size > 0 THEN Append(delivered, <<r, nextFrag>>)
                    ELSE delivered
    /\ LET chunks == IF size > 0
                     THEN Append(localAudioChunks, <<r, nextFrag>>)
                     ELSE localAudioChunks
       IN  /\ localAudioChunks' = chunks
           /\ IF NothingRecorded(chunks)
              THEN /\ status' = "no_audio"
                   /\ recordDisabled' = FALSE
                   /\ lastOp' = "onstop_empty"
                   /\ UNCHANGED blobPending
              ELSE /\ status' = "processing"
                   /\ blobPending' = blobPending \cup {[rid |-> r, data |-> chunks]}
                   /\ lastOp' = "onstop_blob"
                   /\ UNCHANGED recordDisabled
    /\ UNCHANGED <<wsState, isReady, refreshDisabled, ctxVars, playVars, loopVars,
                   sent, mediaRecorder, recording, micStream, streams, gumPending,
                   nextRec, analyser, visualizerDrawing, rafPending,
                   budgetVars, histVars>>

\* mediaRecorder.onstop after await audioBlob.arrayBuffer()
BlobReady(b) ==
    /\ Idle
    /\ b \in blobPending
    /\ blobPending' = blobPending \ {b}
    /\ IF CanSend
       THEN /\ sent' = Append(sent, Frame("audio", b.data))
            /\ lastOp' = "audio_sent"
            /\ UNCHANGED status
       ELSE /\ status' = "connection_lost"
            /\ lastOp' = "audio_not_sent"
            /\ UNCHANGED sent
    /\ localAudioChunks' = <<>>
    /\ UNCHANGED <<wsState, isReady, recordDisabled, refreshDisabled, ctxVars,
                   playVars, loopVars, mediaRecorder, recording, micStream,
                   streams, gumPending, stopTasks, nextFrag, delivered, nextRec, vizVars,
                   budgetVars, histVars>>

\* ---- click on the refresh button ----
RefreshClick ==
    /\ Idle
    /\ events < MaxEvents
    /\ ~refreshDisabled     \* a disabled button receives no click
    /\ events' = events + 1
    /\ IF CanSend
       THEN /\ status' = "requesting_refresh"
            /\ sent' = Append(sent, Frame("refresh_zapier", <<>>))
            /\ refreshDisabled' = TRUE
            /\ recordDisabled' = TRUE
            /\ refreshPending' = TRUE
            /\ lastOp' = "refresh_click"
       ELSE /\ status' = "not_connected"
            /\ lastOp' = "refresh_refused"
            /\ UNCHANGED <<sent, refreshDisabled, recordDisabled, refreshPending>>
    /\ UNCHANGED <<wsState, isReady, ctxVars, playVars, loopVars, recVars,
                   vizVars, nextId, schedHist, chainHist, drained, stopHist,
                   everReady, refreshFailed>>

\* ---- the microtask at the head of the queue ----
RunThenTask ==
    /\ Len(microtasks) > 0
    /\ Head(microtasks).k = "then"
    /\ RunThen(Head(microtasks), Tail(microtasks))

RunPaqTask ==
    /\ Len(microtasks) > 0
    /\ Head(microtasks).k = "paq"
    /\ RunPaq(Head(microtasks), Tail(microtasks))
    /\ UNCHANGED <<wsState, ctxVars, timers, sent, recVars, vizVars, budgetVars>>

RunRecTask ==
    /\ Len(microtasks) > 0
    /\ Head(microtasks).k = "rec"
    /\ RunRec(Head(microtasks), Tail(microtasks))

RunVizTask ==
    /\ Len(microtasks) > 0
    /\ Head(microtasks).k = "viz"
    /\ RunViz(Head(microtasks), Tail(microtasks))

Next ==
    \/ WsOpen
    \/ WsClose
    \/ WsError
    \/ \E len \in ChunkLens, cr \in {"suspended", "running"} : RecvBinary(len, cr)
    \/ \E kind \in MsgKinds : RecvText(kind)
    \/ Timer
    \/ RunThenTask
    \/ RunPaqTask
    \/ RunRecTask
    \/ RunVizTask
    \/ \E s \in sources : SourceEnded(s)
    \/ StopAgentAndPlayback
    \/ Tick
    \/ Suspend
    \/ ResumeResolved
    \/ \E cr \in {"suspended", "running"} : StartRecording(cr)
    \/ \E r \in gumPending, ok \in BOOLEAN : GumResolve(r, ok)
    \/ \E r \in gumPending : GumReject(r)
    \/ DrawFrame
    \/ \E r \in recording, size \in {0, 1} : DataAvailable(r, size)
    \/ StopRecording
    \/ \E r \in stopTasks, size \in {0, 1} : OnStop(r, size)
    \/ \E b \in blobPending : BlobReady(b)
    \/ RefreshClick

Spec == Init /\ [][Next]_vars

\* the event loop runs the continuations that are ready, and a timeout that
\* was set fires once the loop is free
LiveSpec ==
    /\ Spec
    /\ WF_vars(RunThenTask \/ RunPaqTask \/ RunRecTask \/ RunVizTask)
    /\ WF_vars(Timer)

\* ======================= properties =======================

\* C1: chunks are scheduled in arrival order: the ids of the scheduled
\* chunks, which number the frames in arrival order, increase strictly.
C1_FifoOrder ==
    \A i, j \in 1..Len(scheduled) : i < j => scheduled[i] < scheduled[j]

C1_Witness == Len(scheduled) >= 2

\* C2: as long as chunks are scheduled on time with no reset in between,
\* nextStartTime is the first start of the chain plus the durations scheduled.
C2_GaplessChaining == chainLen > 0 => nextStartTime = chainEnd

C2_Witness == chainLen >= 2 /\ lastOp = "paq_schedule"

\* C3: every chunk is started at max(device clock, nextStartTime), which is
\* the device clock when the clock is already past nextStartTime.
C3_StartIsMax ==
    Len(scheduled) > 0 =>
        /\ lastSched.start = Max(lastSched.at, lastSched.prev)
        /\ lastSched.at > lastSched.prev => lastSched.start = lastSched.at

C3_Witness ==
    /\ lastOp = "paq_schedule"
    /\ lastSched.prev > 0
    /\ lastSched.at > lastSched.prev

\* C4 as claimed: once the drain reset of a completion callback has run,
\* the empty-queue branch does not reset nextStartTime again before a chunk
\* is dequeued and scheduled.
C4_SingleDrainReset == [][drained => lastOp' /= "paq_drain"]_vars

\* C4: once the drain reset of a completion callback has run, nextStartTime
\* is 0 until a chunk is dequeued and scheduled (the empty-queue branch may
\* run again meanwhile and leaves it at 0).
C4_DrainedClockStaysZero == drained => nextStartTime = 0

C4_Witness == drained /\ lastOp = "paq_drain" /\ Len(scheduled) > 0

\* C5: a dequeued chunk of odd length is dropped, not scheduled: the engine
\* is idle again, nextStartTime and the rest of the queue are as before, and
\* a new playAudioQueue call is pending, which dequeues the next chunk when
\* it finds the queue non-empty and the engine idle.
PaqStep == lastOp' \in {"paq_schedule", "paq_discard", "paq_error", "paq_drain",
                        "paq_busy", "paq_nocontext"}
                /\ Len(microtasks) > 0 /\ Head(microtasks).k = "paq"
DequeueStep == PaqStep /\ lastOp' \in {"paq_schedule", "paq_discard", "paq_error"}
PendingCalls == microtasks \o waiting

C5_OddChunkDropped ==
    [][ /\ (DequeueStep /\ Head(audioQueue).len % 2 = 1) =>
              /\ lastOp' = "paq_discard"
              /\ scheduled' = scheduled
              /\ sources' = sources
              /\ isPlaying' = FALSE
              /\ nextStartTime' = nextStartTime
              /\ audioQueue' = Tail(audioQueue)
              /\ Len(PendingCalls') > 0
              /\ PendingCalls'[Len(PendingCalls')].k = "paq"
              /\ PendingCalls'[Len(PendingCalls')].from = "retry"
        /\ (PaqStep /\ Head(microtasks).from = "retry"
                /\ Len(audioQueue) > 0 /\ ~isPlaying) =>
              /\ DequeueStep
              /\ audioQueue' \in {Tail(audioQueue), <<>>} ]_vars

C5_Witness == lastOp = "paq_discard" /\ Len(audioQueue) > 0

\* C6: after a stop during rendering, no completion callback of a chunk
\* scheduled before the stop runs, no chunk that had arrived before the stop
\* is scheduled, and nextStartTime is 0 until a chunk is scheduled.
C6_StopCancelsPlayback ==
    [][ /\ lastOp' = "onended" => \A s \in sources \ sources' : s.id > stopMark
        /\ Len(scheduled') > Len(scheduled) =>
              scheduled'[Len(scheduled')] > stopArrived
        /\ sinceStop' => nextStartTime' = 0 ]_vars

\* C7: when the recorder stops with an empty capture buffer, the stop
\* handler sends nothing and parks nothing to send, the recorder is
\* inactive, and the status is the 'no audio recorded' one.
OnStopStep == stopTasks' /= stopTasks /\ Cardinality(stopTasks') < Cardinality(stopTasks)

C7_EmptyRecordingNotSent ==
    [][ (OnStopStep /\ Len(localAudioChunks') = 0) =>
            /\ sent' = sent
            /\ blobPending' = blobPending
            /\ status' = "no_audio"
            /\ \A r \in stopTasks \ stopTasks' : r \notin recording' ]_vars

C7_Witness == lastOp = "onstop_empty" /\ status = "no_audio"

\* C8: readiness starts not-ready, is ready right after an 'Agent ready'
\* status message, and startRecording has passed its guard only if
\* readiness has become ready before.
C8_ReadinessGatesCapture ==
    /\ events = 0 => ~isReady
    /\ lastOp = "agent_ready" => isReady
    /\ nextRec > 1 => everReady

C8_Witness == nextRec > 1 /\ everReady

\* C9: after a refresh click answered by a failure, readiness is not-ready
\* and the record button is disabled until a message makes readiness ready.
C9_FailedRefreshKeepsDisabled == refreshFailed => (~isReady /\ recordDisabled)

\* C10: startRecording passes its guard, and the recorder is started, only
\* in states where the connection is open, readiness is ready, no chunk is
\* playing or rendering and no recorder is recording.
C10_CaptureStartsOnlyWhenFree ==
    [][ (nextRec' /= nextRec \/ lastOp' = "rec_started") =>
            /\ wsState = "open"
            /\ isReady
            /\ ~isPlaying
            /\ ~Rendering
            /\ recording = {} ]_vars

\* C11: no frame is handed to the socket while the connection is not open.
\* A send attempted then (the recorded audio after a capture, stop_agent,
\* refresh_zapier) sends nothing and its handler runs to its end: apart from
\* what the handler does whether or not the connection is open (onstop
\* empties the capture buffer, the stop handler resets playback and the
\* buttons), only the status text changes.  (The refresh button is disabled
\* whenever the connection is not open, so its click handler is reached
\* from the audio and stop paths only.)
C11_NoSendUnlessOpen ==
    [][ /\ wsState /= "open" => sent' = sent
        /\ (blobPending' /= blobPending /\ Cardinality(blobPending') < Cardinality(blobPending)
                /\ wsState /= "open") =>
              /\ lastOp' = "audio_not_sent"
              /\ status' = "connection_lost"
              /\ localAudioChunks' = <<>>
              /\ UNCHANGED <<wsState, isReady, recordDisabled, refreshDisabled,
                             ctxVars, playVars, loopVars, mediaRecorder, recording,
                             micStream, streams, gumPending, stopTasks, vizVars>>
        /\ (lastOp' = "stop_agent" /\ events' /= events /\ wsState /= "open") =>
              /\ status' = "stop_requested"
              /\ UNCHANGED <<wsState, isReady, ctxVars, loopVars, recVars, vizVars>>
        /\ lastOp' = "refresh_refused" => status' = "not_connected" ]_vars

C11_Witness == lastOp = "audio_not_sent" /\ wsState = "closed" /\ status = "connection_lost"

\* C12: a text frame that does not parse, or whose type is unknown or
\* missing, changes nothing: connection, readiness, buttons, status,
\* playback queue, nextStartTime, playing flag, pending calls and capture
\* state are as before; and after it the message handler still accepts the
\* next text frame and the next binary frame.
C12_BadTextIgnored ==
    /\ [][ lastOp' = "text_ignored" =>
              UNCHANGED <<wsState, uiVars, ctxVars, playVars, loopVars, sent,
                          recVars, vizVars>> ]_vars
    /\ [](lastOp = "text_ignored" /\ events < MaxEvents =>
              /\ ENABLED RecvText("agent_ready")
              /\ ENABLED RecvText("error")
              /\ ENABLED RecvBinary(2, "running"))

C12_Witness ==
    /\ lastOp = "text_ignored"
    /\ isReady /\ isPlaying /\ Len(audioQueue) > 0 /\ nextStartTime > 0

\* C13: a connection that has closed or failed is never open again, and
\* from then on readiness is not-ready and the record and refresh buttons
\* are disabled.
C13_ClosedIsTerminal ==
    [][ /\ wsState = "closed" => wsState' = "closed"
        /\ wsState' = "closed" =>
              ~isReady' /\ recordDisabled' /\ refreshDisabled' ]_vars

\* the chunks of a queue, and the chunks that leave the queue in a step
QueuedIds(q) == {q[i].id : i \in 1..Len(q)}
LeftQueue == QueuedIds(audioQueue) \ QueuedIds(audioQueue')
HeadScheduled ==
    /\ lastOp' = "paq_schedule"
    /\ LeftQueue = {Head(audioQueue).id}
    /\ \E src \in sources' \ sources : src.id = Head(audioQueue).id

\* C14 as claimed: a queued chunk leaves the queue either scheduled on the
\* output device or through a reset by an inbound error message, a
\* playback failure or a click on stop, and in no other step.
C14_DroppedOnlyOnReset ==
    [][ LeftQueue /= {} =>
            \/ HeadScheduled
            \/ lastOp' \in {"error", "paq_error", "stop_agent"} ]_vars

\* C14: a queued chunk leaves the queue either scheduled on the output
\* device, or through a reset (inbound error message, playback failure,
\* click on stop, start of a capture), or alone as the dequeued head when
\* its length is odd; no other step removes a queued chunk.
C14_DroppedOnResetCaptureOrOdd ==
    [][ LeftQueue /= {} =>
            \/ HeadScheduled
            \/ lastOp' \in {"error", "paq_error", "stop_agent", "rec_reset"}
            \/ /\ lastOp' = "paq_discard"
               /\ LeftQueue = {Head(audioQueue).id}
               /\ Head(audioQueue).len % 2 = 1 ]_vars

\* the only frame received is dropped by the reset of a capture start while
\* the playAudioQueue call that would have scheduled it is still pending
C14_Witness ==
    /\ lastOp = "rec_reset"
    /\ events = 3 /\ nextId = 2
    /\ scheduled = <<>> /\ audioQueue = <<>>
    /\ Len(microtasks) > 0
    /\ Head(microtasks).k = "paq" /\ Head(microtasks).from = "msg"

\* C15: at most one scheduled chunk has a completion callback pending, and
\* a chunk never starts before the end of an earlier scheduled chunk that
\* was not halted.
C15_NoOverlap ==
    /\ Cardinality(sources) <= 1
    /\ \A s1, s2 \in sources : s1.id < s2.id => s2.start >= s1.end

\* a scheduled source whose chunk was playing when playback state was reset:
\* the engine is no longer playing it, or plays a newer chunk
Stale(src) == src \in sources /\ (~isPlaying \/ src.id /= currentAudioSource)

\* C16: the completion callback of a chunk that was rendering when playback
\* state was reset (stop click, inbound error message, capture start) changes
\* nothing when it runs: isPlaying and the current-source reference are as
\* before and no playAudioQueue call is made (so no chunk is dequeued and
\* nextStartTime and the buttons are not reset).
C16_StaleCallbackInert ==
    [][ (lastOp' = "onended" /\ \E src \in sources \ sources' : Stale(src)) =>
            UNCHANGED <<isPlaying, currentAudioSource, microtasks, waiting>> ]_vars

\* C17: right after stopAgentAndPlayback the queue is empty, nextStartTime
\* is 0, the engine is idle (isPlaying false, no current source) and no
\* scheduled chunk is still rendering or still to render.
C17_StopHaltsAll ==
    [][ lastOp' = "stop_agent" =>
            /\ audioQueue' = <<>>
            /\ nextStartTime' = 0
            /\ ~isPlaying'
            /\ currentAudioSource' = 0
            /\ \A src \in sources' : clock' >= src.end ]_vars

\* C18: when converting or scheduling a dequeued chunk throws, the queue is
\* empty, nextStartTime is 0, the engine is idle and the status is the
\* playback-error one; and the engine is never playing without a scheduled
\* source, the one it refers to, whose completion callback is pending.
C18_FailureResets ==
    /\ [][ lastOp' = "paq_error" =>
              /\ audioQueue' = <<>>
              /\ nextStartTime' = 0
              /\ ~isPlaying'
              /\ status' = "playback_error" ]_vars
    /\ [](isPlaying => \E src \in sources : src.id = currentAudioSource)

\* three frames received and nothing else: the first was scheduled, the
\* second failed, and the failure dropped the third
C18_Witness ==
    /\ lastOp = "paq_error"
    /\ events = 3 /\ nextId = 4
    /\ scheduled = <<1>> /\ audioQueue = <<>>
    /\ nextStartTime = 0 /\ ~isPlaying /\ status = "playback_error"

\* C19: from the sending of a refresh command until a zapier_refreshed
\* message is received, the record button is disabled in every state.
C19_DisabledWhileRefreshing == refreshPending => recordDisabled

\* C20 as claimed: after a zapier_refreshed message, success or failure, the
\* 'Zapier Refresh: ...' status is eventually replaced (by the idle status
\* when the delay elapses, unless another status was written first).
C20_RefreshStatusReverts ==
    (lastOp \in {"zapier_success", "zapier_failure"}) ~> (status /= "zapier_refresh")

\* C20: after a zapier_refreshed message with status success, the
\* 'Zapier Refresh: ...' status is eventually replaced (by the idle status
\* when the delay elapses, unless another status was written first).
C20_SuccessStatusReverts ==
    (lastOp = "zapier_success") ~> (status /= "zapier_refresh")

\* the only input so far was a successful confirmation, and its timeout has
\* put the idle status in place of the transient one
C20_Witness ==
    /\ lastOp = "timer"
    /\ events = 1 /\ isReady
    /\ status = "ready_idle" /\ timers = 0

\* C21: a click on the stop button appends exactly one stop_agent command to
\* the frames sent when the connection is open and sends nothing when it is
\* not, and right after it the record and refresh buttons are enabled
\* exactly when isReady is true.
C21_StopSendsIffOpen ==
    [][ lastOp' = "stop_agent" =>
          /\ wsState = "open" => sent' = Append(sent, Frame("stop_agent", <<>>))
          /\ wsState /= "open" => sent' = sent
          /\ recordDisabled' = ~isReady'
          /\ refreshDisabled' = ~isReady' ]_vars

\* the stop button clicked on an open, ready connection whose buttons were
\* disabled by a playing chunk
C21_Witness ==
    /\ lastOp = "stop_agent"
    /\ wsState = "open"
    /\ isReady
    /\ scheduled /= <<>>
    /\ Len(sent) = 1
    /\ sent[1] = Frame("stop_agent", <<>>)
    /\ ~recordDisabled
    /\ ~refreshDisabled

\* C22: once an inbound error message has been handled the playback queue is
\* empty, nextStartTime is 0, isPlaying is false and no source is rendering,
\* isReady is what it was, and the record and refresh buttons are enabled
\* exactly when isReady is true.
C22_ErrorResetsPlayback ==
    [][ lastOp' = "error" =>
          /\ audioQueue' = <<>>
          /\ nextStartTime' = 0
          /\ ~isPlaying'
          /\ ~Rendering'
          /\ isReady' = isReady
          /\ recordDisabled' = ~isReady'
          /\ refreshDisabled' = ~isReady' ]_vars

\* what a refused startRecording leaves alone
RefusedStartFrame ==
    UNCHANGED <<audioQueue, nextStartTime, isPlaying, localAudioChunks, isReady,
                gumPending, micStream, streams, mediaRecorder, recording>>

\* startRecording up to its first await, and its continuation
StartStep == lastOp' \in {"rec_refused", "rec_guard_passed"} /\ events' /= events
StartResumed ==
    /\ lastOp' \in {"rec_nocontext", "rec_reset"}
    /\ Len(microtasks') < Len(microtasks)

C24_CaptureStartSilences ==
    [][ lastOp' = "rec_reset" =>
          /\ audioQueue' = <<>>
          /\ localAudioChunks' = <<>>
          /\ nextStartTime' = 0
          /\ ~Rendering'
          /\ sources' = {} ]_vars

\* the non-empty fragments the ticks of recorder r delivered, in order
FragmentsOf(r) == SelectSeq(delivered, LAMBDA f : f[1] = r)

\* C25: the frame sent for a recording that ended with a non-empty capture
\* buffer on an open connection is one binary frame whose content is the
\* non-empty fragments delivered by that recording's ticks, all of them, in
\* the order delivered, and nothing else.
C25_FrameIsTheRecording ==
    [][ lastOp' = "audio_sent" =>
          \E b \in blobPending \ blobPending' :
              sent' = Append(sent, Frame("audio", FragmentsOf(b.rid))) ]_vars

\* connectVisualizer(stream r) is still to run its part after the await
VizPending(r) ==
    \/ \E i \in 1..Len(microtasks) : microtasks[i].k = "viz" /\ microtasks[i].rid = r
    \/ \E i \in 1..Len(waiting) : waiting[i].k = "viz" /\ waiting[i].rid = r

\* C26: when getUserMedia rejects or the recorder cannot be set up, the
\* catch block of startRecording leaves an error status, no recorder of
\* that attempt recording, and neither the microphone stream nor a
\* visualizer source of that attempt open or about to be attached.
C26_FailedStartReleasesDevices ==
    [][ lastOp' \in {"rec_mic_failed", "rec_setup_failed"} =>
          \A r \in gumPending \ gumPending' :
              /\ status' = "mic_error"
              /\ r \notin recording'
              /\ r \notin streams'
              /\ micStream' /= r
              /\ sourceNode' /= r
              /\ ~VizPending(r)' ]_vars

\* a recoverable error has just been handled: a playback failure, a corrupt
\* chunk, a microphone or recorder failure, an inbound error message, or an
\* output context that cannot be created
ErrorHandled ==
    \/ lastOp \in {"paq_error", "paq_discard", "error", "rec_mic_failed",
                   "rec_setup_failed"}
    \/ lastOp \in {"recv_binary", "rec_guard_passed"} /\ status = "audio_unsupported"

\* playback has not drained, or a capture or a refresh is under way
Busy ==
    \/ isPlaying \/ sources /= {} \/ waiting /= <<>>
    \/ gumPending /= {} \/ recording /= {} \/ stopTasks /= {} \/ blobPending /= {}
    \/ refreshPending

\* the record button is enabled, or the connection is no longer open and ready
Usable == ~recordDisabled \/ wsState /= "open" \/ ~isReady

ClockResets == {"paq_drain", "stop_agent", "error", "paq_error", "rec_reset"}

\* C28: a scheduling step leaves nextStartTime at least at its previous
\* value and at least at the device clock of that step, and nextStartTime
\* decreases only in a reset (queue drain, user stop, inbound error or
\* playback failure, capture start).
C28_ClockNeverDecreases ==
    [][ /\ (lastOp' = "paq_schedule" /\ scheduled' /= scheduled) =>
              /\ nextStartTime' >= nextStartTime
              /\ nextStartTime' >= clock
        /\ nextStartTime' < nextStartTime => lastOp' \in ClockResets ]_vars

\* a chunk scheduled behind another one, the device clock past 0
C28_Witness ==
    /\ lastOp = "paq_schedule"
    /\ Len(scheduled) >= 2
    /\ lastSched.prev > 0
    /\ lastSched.at > 0
    /\ nextStartTime > lastSched.prev
    /\ nextStartTime > lastSched.at

\* chunk i is waiting in the playback queue
Queued(i) == i \in QueuedIds(audioQueue)

\* C29: provided the output context can be created, every resume() it is
\* asked for settles, and every scheduled source ends and has its callback
\* run, each chunk appended to the playback queue eventually leaves it, by
\* being scheduled or by a reset or a corrupt-frame discard; and a chunk
\* that arrives while nothing is playing starts a playback attempt.
C29_QueuedChunkLeaves ==
    /\ (audioSupported /\ []<>(waiting = <<>>) /\ []<>(sources = {}))
          => \A i \in 1..MaxEvents : Queued(i) ~> ~Queued(i)
    /\ [][ (lastOp' = "recv_binary" /\ events' /= events /\ ~isPlaying
              /\ audioSupported) =>
                Len(microtasks') + Len(waiting') > Len(microtasks) + Len(waiting)
          ]_vars

\* the second chunk, which arrived while the first was playing, has been
\* scheduled by the first one's completion callback
C29_Witness ==
    /\ lastOp = "paq_schedule"
    /\ events = 2
    /\ scheduled = <<1, 2>>
    /\ Cardinality(sources) = 1
    /\ audioQueue = <<>>

\* C30: the draw loop asks for a further frame only while a source node is
\* attached: a loop starts only with a source attached and goes on at every
\* tick that finds one; the first tick that finds the source detached asks
\* for no further frame, does the final clear and sets visualizerDrawing to
\* false, and the loop ends in no other way. One loop runs at a time.
C30_LoopStopsWhenDetached ==
    /\ [][ /\ (~rafPending /\ rafPending') => sourceNode' /= 0
           /\ (rafPending /\ ~rafPending') =>
                 /\ sourceNode = 0
                 /\ lastOp' = "draw_final"
                 /\ ~visualizerDrawing' ]_vars
    /\ [](rafPending /\ Idle /\ sourceNode = 0 =>
            /\ ENABLED (DrawFrame /\ ~rafPending')
            /\ ~ENABLED (DrawFrame /\ rafPending'))
    /\ [](rafPending /\ Idle /\ sourceNode /= 0 =>
            /\ ENABLED (DrawFrame /\ rafPending')
            /\ ~ENABLED (DrawFrame /\ ~rafPending'))
    /\ [](rafPending <=> visualizerDrawing)

\* the tick after onstop detached the source has ended the loop
C30_Witness ==
    /\ lastOp = "draw_final"
    /\ sourceNode = 0
    /\ analyser
    /\ ~rafPending
    /\ ~visualizerDrawing
    /\ blobPending /= {}

\* C31: a chunk is scheduled only on a running context: playAudioQueue
\* schedules in the continuation of its ensureAudioContext, which is held
\* back while the context is suspended and released only by the step that
\* settles resume() and leaves the context running.
C31_ScheduledOnlyWhenRunning ==
    /\ [][ /\ lastOp' = "paq_schedule" => ctxState = "running" /\ ctxState' = "running"
           /\ Len(waiting') < Len(waiting) =>
                 /\ lastOp' = "resumed"
                 /\ ctxState' = "running"
                 /\ microtasks' = microtasks \o waiting ]_vars
    /\ [](waiting /= <<>> => ctxState = "suspended")
    /\ [](microtasks /= <<>> /\ Head(microtasks).k = "paq" /\ Head(microtasks).ready
            => ctxState = "running")

\* resume() has settled for a playAudioQueue call that found the context
\* suspended; its continuation, next to run, will schedule the queued chunk
C31_Witness ==
    /\ lastOp = "resumed"
    /\ ctxState = "running"
    /\ microtasks /= <<>>
    /\ Head(microtasks).k = "paq"
    /\ Head(microtasks).from = "ended"
    /\ ~isPlaying
    /\ Len(audioQueue) = 1
    /\ audioQueue[1].len = 2
    /\ scheduled = <<1>>

\* C32: there is no output context until a handler that needs one asks for
\* it (a binary frame with nothing playing, a press on the record button);
\* once created it is never destroyed and never replaced: its state changes
\* only by the user agent suspending it and by resume() settling, however
\* many ensureAudioContext calls are pending at once.
C32_ContextCreatedOnce ==
    /\ ctxState = "none"
    /\ [][ /\ ctxState /= "none" => ctxState' /= "none"
           /\ (ctxState /= "none" /\ ctxState' /= ctxState) =>
                 lastOp' \in {"suspend", "resumed"}
           /\ (ctxState = "none" /\ ctxState' /= "none") =>
                 /\ lastOp' \in {"recv_binary", "rec_guard_passed"}
                 /\ audioSupported ]_vars

\* message handling and capture start both wait on resume() of the one
\* context, which the first of them created suspended
C32_Witness ==
    /\ ctxState = "suspended"
    /\ Len(waiting) = 2
    /\ waiting[1].k = "then"
    /\ waiting[2].k = "rec"
    /\ lastOp = "rec_guard_passed"

\* C33: isPlaying is false only when no scheduled chunk is still rendering,
\* and the empty-queue branch writes its 'Ready' status and enables the
\* buttons only when none is.
C33_FlagAgreesWithDevice ==
    /\ [](~isPlaying => ~Rendering)
    /\ [][lastOp' = "paq_drain" => ~Rendering']_vars

\* startRecording call r is suspended at its await ensureAudioContext()
RecParked(r) ==
    \/ \E i \in 1..Len(microtasks) : microtasks[i].k = "rec" /\ microtasks[i].rid = r
    \/ \E i \in 1..Len(waiting) : waiting[i].k = "rec" /\ waiting[i].rid = r

\* C34: right after the record button is released, the recording of the
\* last press that got past the guard is not active and cannot become
\* active (its startRecording is not waiting for the context or for the
\* microphone), and no microphone stream is open.
C34_ReleaseEndsCapture ==
    [][ lastOp' = "stop_recording" =>
          /\ (nextRec - 1) \notin recording'
          /\ (nextRec - 1) \notin gumPending'
          /\ ~RecParked(nextRec - 1)'
          /\ streams' = {} ]_vars

\* C35: at most one microphone stream is open and at most one recorder is
\* recording, and a release leaves no acquired stream open.
C35_SingleCapture ==
    /\ [](Cardinality(streams) <= 1 /\ Cardinality(recording) <= 1)
    /\ [][lastOp' = "stop_recording" => streams' = {}]_vars

\* C36: when onstop resumes after assembling the payload of recorder r, the
\* payload holds fragments of r only, and the clear of the capture buffer
\* removes no fragment delivered by another recorder.
C36_FinalisingIsolated ==
    [][ lastOp' \in {"audio_sent", "audio_not_sent"} =>
          \A b \in blobPending \ blobPending' :
              /\ \A i \in 1..Len(b.data) : b.data[i][1] = b.rid
              /\ \A i \in 1..Len(localAudioChunks) :
                    localAudioChunks[i][1] /= b.rid =>
                        \E j \in 1..Len(localAudioChunks') :
                            localAudioChunks'[j] = localAudioChunks[i] ]_vars

\* C37: whenever the record button is enabled the connection is open and
\* isReady is true.
C37_EnabledImpliesReady == ~recordDisabled => wsState = "open" /\ isReady

\* C38: a status message whose text is not 'Agent ready' changes the status
\* text and nothing else, and an audio_stream_end or lifecycle message
\* changes nothing: readiness, the playback queue, nextStartTime, the playing
\* flag, the capture state and both buttons are as before.
C38_PlainMessagesKeepState ==
    [][ /\ lastOp' \in {"status_other", "text_ignored"} =>
              UNCHANGED <<isReady, audioQueue, nextStartTime, isPlaying,
                          recVars, recordDisabled, refreshDisabled>>
        /\ lastOp' = "status_other" =>
              /\ status' = "server_status"
              /\ UNCHANGED <<wsState, ctxVars, playVars, loopVars, sent, vizVars>>
        /\ lastOp' = "text_ignored" => UNCHANGED status ]_vars

C38_Witness ==
    /\ lastOp = "status_other" /\ status = "server_status"
    /\ ~isReady /\ recordDisabled /\ refreshDisabled
    /\ isPlaying /\ nextStartTime > 0

====
